---- MODULE Spec2Model ----
(***************************************************************************)
(* Model of backend/app.py: get_liturgical_readings segments the lines of  *)
(* a scraped page into the four liturgical readings, and the route         *)
(* /api/readings answers a request with its result.  Lines are strings;    *)
(* strip, lower, the digit test, the keyword match, join and title are     *)
(* computed character by character as the Python built-ins compute them.   *)
(***************************************************************************)
EXTENDS Integers, Sequences, FiniteSets, TLC

VARIABLES lines, i, buffer, current_section, current_ref, readings_found,
          readings, pc, returned, date, response

vars == <<lines, i, buffer, current_section, current_ref, readings_found,
          readings, pc, returned, date, response>>

(* ---------------- bounds of the model ---------------- *)

\* longest page (in lines) built from every combination of Vocab
MaxLen == 4
\* most sections in a page built from whole sections
MaxSections == 5
\* longest page of the repeated-invocation specification
RunMaxLen == 2

(* ---------------- Python built-ins on strings ---------------- *)

None == "None"

UpperChars == "ABCDEFGHIJKLMNOPQRSTUVWXYZ"
LowerChars == "abcdefghijklmnopqrstuvwxyz"
Digits == {"0", "1", "2", "3", "4", "5", "6", "7", "8", "9"}
Whitespace == {" "}

CharAt(s, k) == SubSeq(s, k, k)

UpperSet == {CharAt(UpperChars, k) : k \in 1..26}
LowerSet == {CharAt(LowerChars, k) : k \in 1..26}

IsUpper(c) == c \in UpperSet
IsLower(c) == c \in LowerSet

ToLower == [c \in UpperSet |->
              CharAt(LowerChars, CHOOSE k \in 1..26 : CharAt(UpperChars, k) = c)]
ToUpper == [c \in LowerSet |->
              CharAt(UpperChars, CHOOSE k \in 1..26 : CharAt(LowerChars, k) = c)]

LowerChar(c) == IF IsUpper(c) THEN ToLower[c] ELSE c

UpperChar(c) == IF IsLower(c) THEN ToUpper[c] ELSE c

\* str.lower(), from the k-th character on
RECURSIVE LowerFrom(_, _)
LowerFrom(s, k) ==
  IF k > Len(s) THEN ""
  ELSE LowerChar(CharAt(s, k)) \o LowerFrom(s, k + 1)

Lower(s) == LowerFrom(s, 1)

\* str.strip(): what lies between the first and the last non-blank character
Strip(s) ==
  LET inked == {k \in 1..Len(s) : CharAt(s, k) \notin Whitespace}
  IN IF inked = {} THEN ""
     ELSE SubSeq(s, CHOOSE k \in inked : \A m \in inked : k <= m,
                    CHOOSE k \in inked : \A m \in inked : m <= k)

\* any(c.isdigit() for c in s)
HasDigit(s) == \E k \in 1..Len(s) : CharAt(s, k) \in Digits

\* sub in s
Contains(sub, s) ==
  \E k \in 1..(Len(s) - Len(sub) + 1) : SubSeq(s, k, k + Len(sub) - 1) = sub

\* " ".join(seq), from the k-th element on
RECURSIVE JoinFrom(_, _)
JoinFrom(seq, k) ==
  IF k > Len(seq) THEN ""
  ELSE IF k = Len(seq) THEN seq[k]
  ELSE seq[k] \o " " \o JoinFrom(seq, k + 1)

Join(seq) == JoinFrom(seq, 1)

\* s.replace("_", " "), from the k-th character on
RECURSIVE ReplaceUnderscoreFrom(_, _)
ReplaceUnderscoreFrom(s, k) ==
  IF k > Len(s) THEN ""
  ELSE (IF CharAt(s, k) = "_" THEN " " ELSE CharAt(s, k))
       \o ReplaceUnderscoreFrom(s, k + 1)

ReplaceUnderscore(s) == ReplaceUnderscoreFrom(s, 1)

IsLetter(c) == IsUpper(c) \/ IsLower(c)

\* str.title(): a letter is upper-cased after a non-letter, lower-cased after
\* a letter; from the k-th character on
RECURSIVE TitleFrom(_, _)
TitleFrom(s, k) ==
  IF k > Len(s) THEN ""
  ELSE (IF k > 1 /\ IsLetter(CharAt(s, k - 1))
        THEN LowerChar(CharAt(s, k))
        ELSE UpperChar(CharAt(s, k)))
       \o TitleFrom(s, k + 1)

Title(s) == TitleFrom(s, 1)

(* ---------------- fixed tables ---------------- *)

\* the keywords dict, in insertion order
keywords == << <<"Primera Lectura", "first_reading">>,
               <<"Salmo Responsorial", "psalm">>,
               <<"Segunda Lectura", "second_reading">>,
               <<"Evangelio", "gospel">> >>

ordered_keys == <<"first_reading", "psalm", "second_reading", "gospel">>

Types == {ordered_keys[k] : k \in 1..Len(ordered_keys)}

(* ---------------- the classifier ---------------- *)

\* key.lower(), for each key of the table
LowerKey == [k \in 1..Len(keywords) |-> Lower(keywords[k][1])]

\* key.lower() in line.lower(), for the k-th key; low is line.lower()
KeywordMatches(k, low) == Contains(LowerKey[k], low)

\* the last matching keyword wins instead of the first (no break)
DetectTypeLastMatch(line) ==
  LET low == Lower(line)
      hits == {k \in 1..Len(keywords) : KeywordMatches(k, low)}
  IN IF hits = {} THEN None
     ELSE keywords[CHOOSE k \in hits : \A m \in hits : m <= k][2]

\* detected_type: the first keyword, in table order, contained in the line
DetectType(line) ==
  LET low == Lower(line)
      hits == {k \in 1..Len(keywords) : KeywordMatches(k, low)}
  IN IF hits = {} THEN None
     ELSE keywords[CHOOSE k \in hits : \A m \in hits : k <= m][2]

(* ---------------- the pages the scraper can be handed ---------------- *)

\* lines as text_content.split('\n') yields them: headers in other case and
\* inside longer text, a header that carries a digit, a line with two
\* keywords, a citation, two lines of plain text, an empty line, a padded line
Vocab == {"Primera Lectura", "EVANGELIO del dia", "Salmo Responsorial 22",
          "Evangelio y Segunda Lectura", "Is 25, 6-10", "Palabra de Dios",
          "Te alabamos, Senor", "", " Mt 5 "}

BoundedSeq(S, n) == UNION {[1..k -> S] : k \in 0..n}

\* whole sections as the page lays them out: header, optional citation, body
SectionShapes == {<<"Primera Lectura", "Lectura del libro de Isaias">>,
                  <<"Salmo Responsorial", "Sal 22", "El Senor es mi pastor">>,
                  <<"Segunda Lectura", "Hermanos">>,
                  <<"Evangelio", "Mt 5, 1-12", "Bienaventurados">>}

RECURSIVE SectionPages(_)
SectionPages(n) ==
  IF n = 0 THEN {<<>>}
  ELSE LET shorter == SectionPages(n - 1)
       IN shorter \cup {p \o s : p \in shorter, s \in SectionShapes}

\* the page of the specification's worked example
ScenarioLines == <<"Intro boilerplate", "Primera Lectura", "Is 25, 6-10",
                   "Texto de la primera lectura.", "Salmo Responsorial",
                   "Sal 22", "Texto del salmo.", "Evangelio", "Mt 5, 1-12",
                   "Texto del evangelio.">>

Inputs == BoundedSeq(Vocab, MaxLen) \cup SectionPages(MaxSections)
            \cup {ScenarioLines}

RunVocab == {"Evangelio", "Mt 5, 1-12", "Palabra de Dios", ""}

RunInputs == BoundedSeq(RunVocab, RunMaxLen)

Range(seq) == {seq[k] : k \in 1..Len(seq)}

\* every line of every page above
PageLines == Vocab \cup RunVocab \cup Range(ScenarioLines)
               \cup UNION {Range(sh) : sh \in SectionShapes}

\* line.strip(), the detected type and the digit test of each of these lines,
\* computed once
Stripped == [l \in PageLines |-> Strip(l)]

detected == [l \in {Stripped[r] : r \in PageLines} |-> DetectType(l)]

digit == [l \in {Stripped[r] : r \in PageLines} |-> HasDigit(l)]

(* ---------------- the pieces of get_liturgical_readings ---------------- *)

Reading(type, title, reference, text) ==
  [type |-> type, title |-> title, reference |-> reference, text |-> text]

NoReadings == [k \in {} |-> Reading("", "", "", "")]

Put(found, key, reading) ==
  [k \in DOMAIN found \cup {key} |-> IF k = key THEN reading ELSE found[k]]

\* full_text = " ".join(buffer).strip()
FullText(buf) == Strip(Join(buf))

\* the Reading is typed with the type just detected, not the type being closed
SavePreviousDetectedType(found, section, buf, ref, line) ==
  IF section # None /\ buf # <<>>
  THEN IF section \notin DOMAIN found
       THEN Put(found, section,
                Reading(detected[line], line, ref, FullText(buf)))
       ELSE found
  ELSE found

\* the closed section is titled with its own derived name, not the new header
SavePreviousTitleCased(found, section, buf, ref, line) ==
  IF section # None /\ buf # <<>>
  THEN IF section \notin DOMAIN found
       THEN Put(found, section,
                Reading(section, Title(ReplaceUnderscore(section)), ref,
                        FullText(buf)))
       ELSE found
  ELSE found

\* the closed section is stored without the "not in readings_found" test
SavePreviousOverwrite(found, section, buf, ref, line) ==
  IF section # None /\ buf # <<>>
  THEN Put(found, section, Reading(section, line, ref, FullText(buf)))
  ELSE found

\* the closed section is stored without the test of its buffer
SavePreviousEvenEmpty(found, section, buf, ref, line) ==
  IF section # None
  THEN IF section \notin DOMAIN found
       THEN Put(found, section, Reading(section, line, ref, FullText(buf)))
       ELSE found
  ELSE found

\* "Save previous section if exists": the header branch, before the new
\* section is opened; line is the header line being processed
SavePrevious(found, section, buf, ref, line) ==
  IF section # None /\ buf # <<>>
  THEN IF section \notin DOMAIN found
       THEN Put(found, section, Reading(section, line, ref, FullText(buf)))
       ELSE found
  ELSE found

\* the last section is stored without the test of its buffer
SaveLastEvenEmpty(found, section, buf, ref) ==
  IF section # None
  THEN IF section \notin DOMAIN found
       THEN Put(found, section,
                Reading(section, Title(ReplaceUnderscore(section)), ref,
                        FullText(buf)))
       ELSE found
  ELSE found

\* the last section is stored without the "not in readings_found" test
SaveLastOverwrite(found, section, buf, ref) ==
  IF section # None /\ buf # <<>>
  THEN Put(found, section,
           Reading(section, Title(ReplaceUnderscore(section)), ref,
                   FullText(buf)))
  ELSE found

\* the last section is titled with the raw type name
SaveLastRawTitle(found, section, buf, ref) ==
  IF section # None /\ buf # <<>>
  THEN IF section \notin DOMAIN found
       THEN Put(found, section, Reading(section, section, ref, FullText(buf)))
       ELSE found
  ELSE found

\* "Save the very last section": after the loop
SaveLast(found, section, buf, ref) ==
  IF section # None /\ buf # <<>>
  THEN IF section \notin DOMAIN found
       THEN Put(found, section,
                Reading(section, Title(ReplaceUnderscore(section)), ref,
                        FullText(buf)))
       ELSE found
  ELSE found

\* the next line is taken as the reference without the digit test
LookaheadAnyLine(ls, k) ==
  IF k < Len(ls) THEN Stripped[ls[k + 1]] ELSE ""

\* the one-line lookahead of the header branch; k is the 1-based position of
\* the header line (Python's i + 1 < len(lines) is k < Len(ls) here)
Lookahead(ls, k) ==
  IF k < Len(ls)
  THEN LET next_line == Stripped[ls[k + 1]]
       IN IF digit[next_line] THEN next_line ELSE ""
  ELSE ""

\* the reference line is not kept out of the body
AppendBodyKeepRef(buf, section, ref, line) ==
  IF section # None THEN Append(buf, line) ELSE buf

\* a line is appended whether or not a section is open
AppendBodyAlways(buf, section, ref, line) ==
  IF line # ref THEN Append(buf, line) ELSE buf

\* the else branch: a line that is no header
AppendBody(buf, section, ref, line) ==
  IF section # None
  THEN IF line # ref THEN Append(buf, line) ELSE buf
  ELSE buf

\* "Format output as a list in liturgical order"
RECURSIVE OrderFrom(_, _)
OrderFrom(found, k) ==
  IF k > Len(ordered_keys) THEN <<>>
  ELSE (IF ordered_keys[k] \in DOMAIN found
        THEN <<found[ordered_keys[k]]>> ELSE <<>>)
       \o OrderFrom(found, k + 1)

\* the keys are walked from the last to the first
RECURSIVE OrderDownFrom(_, _)
OrderDownFrom(found, k) ==
  IF k < 1 THEN <<>>
  ELSE (IF ordered_keys[k] \in DOMAIN found
        THEN <<found[ordered_keys[k]]>> ELSE <<>>)
       \o OrderDownFrom(found, k - 1)

OrderedReadingsReversed(found) == OrderDownFrom(found, Len(ordered_keys))

OrderedReadings(found) == OrderFrom(found, 1)

(* ---------------- the state machine ---------------- *)

NoReturn == [seen |-> FALSE, lines |-> <<>>, readings |-> <<>>]

Init ==
  /\ lines = <<>>
  /\ i = 1
  /\ buffer = <<>>
  /\ current_section = None
  /\ current_ref = ""
  /\ readings_found = NoReadings
  /\ readings = <<>>
  /\ pc = "idle"
  /\ returned = NoReturn
  /\ date = None
  /\ response = <<>>

\* readings_found outlives the call (a module-level dict)
CallKeepFound(pages, from) ==
  /\ pc \in from
  /\ \E ls \in pages : lines' = ls
  /\ readings' = <<>>
  /\ buffer' = <<>>
  /\ current_section' = None
  /\ current_ref' = ""
  /\ i' = 1
  /\ pc' = "loop"
  /\ UNCHANGED <<returned, readings_found>>
  /\ UNCHANGED <<date, response>>

\* a call of get_liturgical_readings: the page is reduced to lines and the
\* locals are created; the server takes a call when it is at one of `from`
Call(pages, from) ==
  /\ pc \in from
  /\ \E ls \in pages : lines' = ls
  /\ readings' = <<>>
  /\ buffer' = <<>>
  /\ current_section' = None
  /\ current_ref' = ""
  /\ readings_found' = NoReadings
  /\ i' = 1
  /\ pc' = "loop"
  /\ UNCHANGED returned
  /\ UNCHANGED <<date, response>>

\* line = line.strip(); if not line: continue
SkipEmpty ==
  /\ pc = "loop"
  /\ i <= Len(lines)
  /\ Stripped[lines[i]] = ""
  /\ i' = i + 1
  /\ UNCHANGED <<lines, buffer, current_section, current_ref, readings_found,
                 readings, pc, returned>>
  /\ UNCHANGED <<date, response>>

\* the loop jumps over the line it took as the reference
HeaderSkipsRef ==
  /\ pc = "loop"
  /\ i <= Len(lines)
  /\ LET line == Stripped[lines[i]]
         detected_type == detected[line]
     IN /\ line # ""
        /\ detected_type # None
        /\ readings_found' = SavePrevious(readings_found, current_section,
                                          buffer, current_ref, line)
        /\ current_section' = detected_type
        /\ buffer' = <<>>
        /\ current_ref' = Lookahead(lines, i)
        /\ i' = IF Lookahead(lines, i) # "" THEN i + 2 ELSE i + 1
  /\ UNCHANGED <<lines, readings, pc, returned>>
  /\ UNCHANGED <<date, response>>

\* the header line is kept as the first body line of the section it opens
HeaderIntoBuffer ==
  /\ pc = "loop"
  /\ i <= Len(lines)
  /\ LET line == Stripped[lines[i]]
         detected_type == detected[line]
     IN /\ line # ""
        /\ detected_type # None
        /\ readings_found' = SavePrevious(readings_found, current_section,
                                          buffer, current_ref, line)
        /\ current_section' = detected_type
        /\ buffer' = <<line>>
        /\ current_ref' = Lookahead(lines, i)
  /\ i' = i + 1
  /\ UNCHANGED <<lines, readings, pc, returned>>
  /\ UNCHANGED <<date, response>>

\* if detected_type: save the previous section, start the new one
Header ==
  /\ pc = "loop"
  /\ i <= Len(lines)
  /\ LET line == Stripped[lines[i]]
         detected_type == detected[line]
     IN /\ line # ""
        /\ detected_type # None
        /\ readings_found' = SavePrevious(readings_found, current_section,
                                          buffer, current_ref, line)
        /\ current_section' = detected_type
        /\ buffer' = <<>>
        /\ current_ref' = Lookahead(lines, i)
  /\ i' = i + 1
  /\ UNCHANGED <<lines, readings, pc, returned>>
  /\ UNCHANGED <<date, response>>

\* else: a line that is no header is body text of the open section
Body ==
  /\ pc = "loop"
  /\ i <= Len(lines)
  /\ LET line == Stripped[lines[i]]
     IN /\ line # ""
        /\ detected[line] = None
        /\ buffer' = AppendBody(buffer, current_section, current_ref, line)
  /\ i' = i + 1
  /\ UNCHANGED <<lines, current_section, current_ref, readings_found,
                 readings, pc, returned>>
  /\ UNCHANGED <<date, response>>

\* the loop is exhausted: save the very last section
Flush ==
  /\ pc = "loop"
  /\ i > Len(lines)
  /\ readings_found' = SaveLast(readings_found, current_section, buffer,
                                current_ref)
  /\ pc' = "order"
  /\ UNCHANGED <<lines, i, buffer, current_section, current_ref, readings,
                 returned>>
  /\ UNCHANGED <<date, response>>

\* build the list in liturgical order and return it
Order ==
  /\ pc = "order"
  /\ readings' = OrderedReadings(readings_found)
  /\ pc' = "done"
  /\ UNCHANGED <<lines, i, buffer, current_section, current_ref,
                 readings_found, returned>>
  /\ UNCHANGED <<date, response>>

\* the caller keeps the list the call returned, with the page it came from;
\* the server awaits the next request
Observe ==
  /\ pc = "done"
  /\ returned' = [seen |-> TRUE, lines |-> lines, readings |-> readings]
  /\ pc' = "idle"
  /\ UNCHANGED <<lines, i, buffer, current_section, current_ref,
                 readings_found, readings>>
  /\ UNCHANGED <<date, response>>

\* the steps of one call, from the first line to the return
Run ==
  \/ SkipEmpty
  \/ Header
  \/ Body
  \/ Flush
  \/ Order

Next ==
  \/ Call(Inputs, {"idle"})
  \/ Run

Spec == Init /\ [][Next]_vars

\* a call runs synchronously to its return: its next step is always taken
FairSpec == Spec /\ WF_vars(Run)

NextRuns ==
  \/ Call(RunInputs, {"idle", "done"})
  \/ Run
  \/ Observe

SpecRuns == Init /\ [][NextRuns]_vars

(* ---------------- the route /api/readings ---------------- *)

\* what request.args.get('date') gives: nothing, an empty string, a date
Dates == {None, "", "2023-10-27"}

\* `not date`
Falsy(d) == d \in {None, ""}

\* jsonify(body) sent with a status
Reply(status, body) == <<[status |-> status, body |-> body]>>

\* a request reaches get_readings
Request ==
  /\ pc \in {"idle", "responded"}
  /\ date' \in Dates
  /\ response' = <<>>
  /\ pc' = "route"
  /\ UNCHANGED <<lines, i, buffer, current_section, current_ref,
                 readings_found, readings, returned>>

\* only a request without the parameter is refused, an empty date goes on
CheckDateNoneOnly ==
  /\ pc = "route"
  /\ IF date = None
     THEN /\ response' = Reply(400, [error |-> "Date parameter is required"])
          /\ pc' = "responded"
     ELSE /\ pc' = "call"
          /\ UNCHANGED response
  /\ UNCHANGED <<lines, i, buffer, current_section, current_ref,
                 readings_found, readings, returned, date>>

\* if not date: return the error and 400; else go on to the call
CheckDate ==
  /\ pc = "route"
  /\ IF Falsy(date)
     THEN /\ response' = Reply(400, [error |-> "Date parameter is required"])
          /\ pc' = "responded"
     ELSE /\ pc' = "call"
          /\ UNCHANGED response
  /\ UNCHANGED <<lines, i, buffer, current_section, current_ref,
                 readings_found, readings, returned, date>>

\* an exception inside the try, before the loop: requests.get raises,
\* raise_for_status raises on a status that is not 2xx, or the parsing raises
ScrapeFails ==
  /\ pc = "call"
  /\ pc' = "except"
  /\ UNCHANGED <<lines, i, buffer, current_section, current_ref,
                 readings_found, readings, returned, date, response>>

\* the handler lets the exception through to the route
ExceptRaises ==
  /\ pc = "except"
  /\ pc' = "raised"
  /\ UNCHANGED <<lines, i, buffer, current_section, current_ref,
                 readings_found, readings, returned, date, response>>

\* except Exception: log the error and return []
Except ==
  /\ pc = "except"
  /\ readings' = <<>>
  /\ pc' = "done"
  /\ UNCHANGED <<lines, i, buffer, current_section, current_ref,
                 readings_found, returned, date, response>>

\* get_readings answers: [] with 200 when data is empty, data otherwise;
\* an exception out of the call is answered with 500
Respond ==
  /\ pc \in {"done", "raised"}
  /\ response' = IF pc = "raised"
                 THEN Reply(500, [error |-> "Exception"])
                 ELSE IF readings = <<>> THEN Reply(200, <<>>)
                      ELSE Reply(200, readings)
  /\ pc' = "responded"
  /\ UNCHANGED <<lines, i, buffer, current_section, current_ref,
                 readings_found, readings, returned, date>>

\* the steps that follow a request up to its response
Serve ==
  \/ CheckDate
  \/ Call(RunInputs, {"call"})
  \/ ScrapeFails
  \/ Except
  \/ Run
  \/ Respond

NextRequests ==
  \/ Request
  \/ Serve

SpecRequests == Init /\ [][NextRequests]_vars

\* a request is served to its response without waiting on anything else
FairSpecRequests == SpecRequests /\ WF_vars(Serve)

(* ---------------- the page, read back from the state ---------------- *)

\* the line at position k as the loop sees it
Line(k) == Stripped[lines[k]]

TypeAt(k) == detected[Line(k)]

IsHeaderAt(k) == Line(k) # "" /\ TypeAt(k) # None

DigitAt(k) == digit[Line(k)]

HeadersOf(T) == {k \in 1..Len(lines) : IsHeaderAt(k) /\ TypeAt(k) = T}

\* the first header line after position h, or one past the end of the page
NextHeaderAfter(h) ==
  LET later == {k \in (h + 1)..Len(lines) : IsHeaderAt(k)}
  IN IF later = {} THEN Len(lines) + 1
     ELSE CHOOSE k \in later : \A m \in later : k <= m

\* the digit-bearing line right after header h, if there is one
RefLineOf(h) ==
  IF h < Len(lines) /\ DigitAt(h + 1) THEN Line(h + 1) ELSE ""

\* the body lines of the section header h opens: the non-empty lines up to
\* the next header that differ from its reference line
RECURSIVE BodyBetween(_, _, _)
BodyBetween(from, to, ref) ==
  IF from > to THEN <<>>
  ELSE (IF Line(from) # "" /\ Line(from) # ref THEN <<Line(from)>> ELSE <<>>)
       \o BodyBetween(from + 1, to, ref)

BodyOf(h) == BodyBetween(h + 1, NextHeaderAfter(h) - 1, RefLineOf(h))

\* the header that opened the section open while line i is awaited
OpenIdx ==
  LET seen == {k \in 1..(i - 1) : k <= Len(lines) /\ IsHeaderAt(k)}
  IN IF seen = {} THEN 0 ELSE CHOOSE k \in seen : \A m \in seen : m <= k

Running == pc \in {"loop", "order", "done"}

KeyPos(t) == CHOOSE k \in 1..Len(ordered_keys) : ordered_keys[k] = t

(* ---------------- C1 ---------------- *)

\* C1: the list get_liturgical_readings returns has between 0 and 4
\* elements and no two of them have the same type.
C1_OutputBounded ==
  /\ Len(readings) \in 0..4
  /\ \A a, b \in 1..Len(readings) :
       a # b => readings[a].type # readings[b].type

\* four readings returned from a page that repeats a header
C1_Witness ==
  /\ pc = "done"
  /\ Len(readings) = 4
  /\ \E a, b \in 1..Len(lines) : a < b /\ IsHeaderAt(a) /\ IsHeaderAt(b)
                                  /\ TypeAt(a) = TypeAt(b)

(* ---------------- C2 ---------------- *)

\* C2: the types of the returned readings, in order, form a subsequence of
\* first_reading, psalm, second_reading, gospel, whatever the order of the
\* header lines in the page.
C2_LiturgicalOrder ==
  /\ \A a \in 1..Len(readings) : readings[a].type \in Types
  /\ \A a, b \in 1..Len(readings) :
       a < b => KeyPos(readings[a].type) < KeyPos(readings[b].type)

\* a page whose Evangelio section precedes its Primera Lectura section
C2_Witness ==
  /\ pc = "done"
  /\ \E a, b \in 1..Len(lines) :
       /\ a < b
       /\ IsHeaderAt(a) /\ TypeAt(a) = "gospel"
       /\ IsHeaderAt(b) /\ TypeAt(b) = "first_reading"
  /\ \E a, b \in 1..Len(readings) :
       /\ a < b
       /\ readings[a].type = "first_reading"
       /\ readings[b].type = "gospel"

(* ---------------- C3 ---------------- *)

FirstHeaderOf(T) == CHOOSE k \in HeadersOf(T) : \A m \in HeadersOf(T) : k <= m

SecondHeaderOf(T) ==
  LET rest == HeadersOf(T) \ {FirstHeaderOf(T)}
  IN CHOOSE k \in rest : \A m \in rest : k <= m

\* C3 as stated: of two header lines of one type, only the section the first
\* of them opens is recorded: whatever Reading the type gets is that section's.
C3_FirstHeaderWins ==
  pc = "done" =>
    \A T \in Types :
      (Cardinality(HeadersOf(T)) >= 2 /\ T \in DOMAIN readings_found) =>
        /\ readings_found[T].text = FullText(BodyOf(FirstHeaderOf(T)))
        /\ readings_found[T].reference = RefLineOf(FirstHeaderOf(T))

\* C3 (amended): of two header lines of one type T, when the section the
\* first of them opens closes with a non-empty buffer, that section and no
\* later one is recorded as the Reading of type T, and its text is made only
\* of lines located before the second header line of type T.
C3_FirstRecordedWins ==
  pc = "done" =>
    \A T \in Types :
      (Cardinality(HeadersOf(T)) >= 2 /\ BodyOf(FirstHeaderOf(T)) # <<>>) =>
        /\ T \in DOMAIN readings_found
        /\ readings_found[T].text = FullText(BodyOf(FirstHeaderOf(T)))
        /\ readings_found[T].reference = RefLineOf(FirstHeaderOf(T))
        /\ NextHeaderAfter(FirstHeaderOf(T)) <= SecondHeaderOf(T)

\* two sections of one type, both with body text, the texts different
C3_Witness ==
  /\ pc = "done"
  /\ \E T \in Types :
       /\ Cardinality(HeadersOf(T)) >= 2
       /\ BodyOf(FirstHeaderOf(T)) # <<>>
       /\ BodyOf(SecondHeaderOf(T)) # <<>>
       /\ BodyOf(SecondHeaderOf(T)) # BodyOf(FirstHeaderOf(T))
       /\ T \in DOMAIN readings_found
       /\ readings_found[T].text = FullText(BodyOf(FirstHeaderOf(T)))

(* ---------------- C4 ---------------- *)

\* a step records type T
Records(T) == T \notin DOMAIN readings_found /\ T \in DOMAIN readings_found'

\* the open section, when the line after its header carries a digit
C4_Open ==
  (Running /\ current_section # None) =>
    LET h == OpenIdx
    IN (h < Len(lines) /\ DigitAt(h + 1)) =>
         /\ current_ref = Line(h + 1)
         /\ \A k \in 1..Len(buffer) : buffer[k] # Line(h + 1)

\* the Reading built when that section is closed
C4_Record ==
  \A T \in Types :
    Records(T) =>
      LET h == OpenIdx
      IN (h < Len(lines) /\ DigitAt(h + 1)) =>
           /\ TypeAt(h) = T
           /\ readings_found'[T].reference = Line(h + 1)
           /\ readings_found'[T].text = FullText(buffer)

\* C4: when the line right after a header line carries a digit, the section
\* that header opens has that line's text as its reference, and the line is
\* not among the lines joined into the section's text.
C4_ReferenceTaken == []C4_Open /\ [][C4_Record]_vars

\* a recorded Reading with a reference, whose section also met a second
\* digit-bearing line, which it kept as body text
C4_Witness ==
  /\ pc = "done"
  /\ \E T \in DOMAIN readings_found :
       /\ readings_found[T].reference # ""
       /\ HasDigit(readings_found[T].text)

(* ---------------- C5 ---------------- *)

\* line i directly follows a header line and carries no digit
AfterHeaderNoDigit ==
  /\ pc = "loop"
  /\ 2 <= i /\ i <= Len(lines)
  /\ IsHeaderAt(i - 1)
  /\ ~DigitAt(i)

StartsWith(text, prefix) == SubSeq(text, 1, Len(prefix)) = prefix

\* C5 as stated, for a following line that is not empty: it carries no digit,
\* so the reference is empty and the line is appended to the buffer.
C5_NoDigitIsBody ==
  [][(AfterHeaderNoDigit /\ Line(i) # "") =>
       /\ current_ref = ""
       /\ buffer' = <<Line(i)>>]_vars

\* C5 (amended): when the line right after a header line carries no digit,
\* is not empty once trimmed and is not itself a header line, the section
\* has an empty reference, the line is appended to its buffer, and a Reading
\* recorded for the section has a text that starts with that line.
C5_NoDigitPlainIsBody ==
  [][/\ (AfterHeaderNoDigit /\ Line(i) # "" /\ TypeAt(i) = None) =>
          /\ current_ref = ""
          /\ buffer' = <<Line(i)>>
          /\ current_ref' = ""
          /\ current_section' = TypeAt(i - 1)
     /\ \A T \in Types :
          Records(T) =>
            LET h == OpenIdx
            IN (/\ h < Len(lines)
                /\ ~DigitAt(h + 1)
                /\ Line(h + 1) # ""
                /\ TypeAt(h + 1) = None) =>
                 /\ readings_found'[T].reference = ""
                 /\ StartsWith(readings_found'[T].text, Line(h + 1))]_vars

\* a Reading recorded with an empty reference from a section of two body lines
C5_Witness ==
  /\ pc = "done"
  /\ \E T \in DOMAIN readings_found :
       LET h == FirstHeaderOf(T)
       IN /\ h < Len(lines)
          /\ ~DigitAt(h + 1)
          /\ Len(BodyOf(h)) >= 2
          /\ readings_found[T].reference = ""
          /\ readings_found[T].text = FullText(BodyOf(h))

(* ---------------- C6 ---------------- *)

\* C6: on the worked example the run yields exactly 3 readings, in the order
\* first_reading, psalm, gospel, the first with reference "Is 25, 6-10" and
\* text "Texto de la primera lectura."
C6_Scenario ==
  (pc = "done" /\ lines = ScenarioLines) =>
    /\ Len(readings) = 3
    /\ readings[1].type = "first_reading"
    /\ readings[2].type = "psalm"
    /\ readings[3].type = "gospel"
    /\ readings[1].reference = "Is 25, 6-10"
    /\ readings[1].text = "Texto de la primera lectura."

(* ---------------- C7 ---------------- *)

TitleCasedName(T) ==
  CASE T = "first_reading" -> "First Reading"
    [] T = "psalm" -> "Psalm"
    [] T = "second_reading" -> "Second Reading"
    [] T = "gospel" -> "Gospel"

\* C7: a section still open with a non-empty buffer when the page ends, of a
\* type not recorded before, is recorded with the title-cased type name as
\* its title, which is the text of no header line.
C7_EndOfInputTitle ==
  [][(/\ pc = "loop" /\ pc' = "order"
      /\ current_section # None
      /\ buffer # <<>>
      /\ current_section \notin DOMAIN readings_found) =>
       /\ current_section \in DOMAIN readings_found'
       /\ readings_found'[current_section].title
            = TitleCasedName(current_section)
       /\ \A k \in 1..Len(lines) :
            IsHeaderAt(k) => readings_found'[current_section].title # Line(k)
     ]_vars

C7_Witness ==
  /\ pc = "done"
  /\ current_section # None
  /\ buffer # <<>>
  /\ current_section \in DOMAIN readings_found
  /\ readings_found[current_section].title = TitleCasedName(current_section)
  /\ readings_found[current_section].text = FullText(buffer)

(* ---------------- C8 ---------------- *)

\* C8: an open section with a non-empty buffer, of a type not yet recorded,
\* that a header line closes is recorded with that closing header line as
\* its title.
C8_ClosingHeaderTitle ==
  [][(/\ pc = "loop" /\ i <= Len(lines) /\ IsHeaderAt(i)
      /\ current_section # None
      /\ buffer # <<>>
      /\ current_section \notin DOMAIN readings_found) =>
       /\ current_section \in DOMAIN readings_found'
       /\ readings_found'[current_section].title = Line(i)
     ]_vars

\* a Reading titled with the header line of another type
C8_Witness ==
  /\ pc = "done"
  /\ \E T \in DOMAIN readings_found :
       \E k \in 1..Len(lines) :
         /\ IsHeaderAt(k)
         /\ TypeAt(k) # T
         /\ k = NextHeaderAfter(FirstHeaderOf(T))
         /\ readings_found[T].title = Line(k)
         /\ readings_found[T].title # Line(FirstHeaderOf(T))

(* ---------------- C9 ---------------- *)

\* C9: a call on a page returns the list an earlier call on the same page
\* returned, whatever calls were made before it or in between.
C9_Idempotent ==
  (pc = "done" /\ returned.seen /\ returned.lines = lines) =>
    readings = returned.readings

\* the kept list is not empty and came from an earlier call than this one
C9_Witness ==
  /\ pc = "done"
  /\ returned.seen
  /\ returned.lines = lines
  /\ returned.readings # <<>>
  /\ readings = returned.readings

(* ---------------- C10 ---------------- *)

ValidOutput ==
  /\ Len(readings) <= Len(ordered_keys)
  /\ \A a \in 1..Len(readings) :
       /\ DOMAIN readings[a] = {"type", "title", "reference", "text"}
       /\ readings[a].type \in Types

\* the pass takes the lines one by one, then flushes, then orders
C10_Visit ==
  /\ (pc = "loop" /\ i <= Len(lines)) => (i' = i + 1 /\ pc' = "loop")
  /\ (pc = "loop" /\ i > Len(lines)) => (i' = i /\ pc' = "order")
  /\ pc = "order" => (i' = i /\ pc' = "done")
  /\ pc \in {"idle", "loop", "order", "done"}
  /\ pc' \in {"idle", "loop", "order", "done"}

\* C10: on every page the single pass visits each line exactly once, reaches
\* the end-of-input flush and returns a valid, possibly empty, list.
C10_Total ==
  /\ [][C10_Visit]_vars
  /\ (pc = "loop") ~> (pc = "done" /\ i = Len(lines) + 1 /\ ValidOutput)

\* a page of header lines only
C10_Witness ==
  /\ pc = "done"
  /\ Len(lines) >= 2
  /\ \A k \in 1..Len(lines) : IsHeaderAt(k)
  /\ readings = <<>>

(* ---------------- C11 ---------------- *)

\* the phrase stands at position pos of the line, letter case aside
PhraseAt(key, line, pos) ==
  \A j \in 1..Len(key) :
    LowerChar(CharAt(line, pos + j - 1)) = LowerChar(CharAt(key, j))

HasPhrase(key, line) ==
  \E pos \in 1..(Len(line) - Len(key) + 1) : PhraseAt(key, line, pos)

\* the table positions of the phrases each line of the pages contains
PhrasesIn ==
  [l \in DOMAIN detected |->
     {k \in 1..Len(keywords) : HasPhrase(keywords[k][1], l)}]

\* the type of the phrase of l that comes first in the table
FirstInTable(l) ==
  IF PhrasesIn[l] = {} THEN None
  ELSE keywords[CHOOSE k \in PhrasesIn[l] :
                  \A m \in PhrasesIn[l] : k <= m][2]

\* no line of the page contains a keyword phrase
NoKeywordAnywhere == \A k \in 1..Len(lines) : PhrasesIn[Line(k)] = {}

\* C11: on a page none of whose lines contains a keyword phrase the
\* accumulator stays idle (no section open, buffer empty) throughout the run
\* and the returned list is empty.
C11_NoKeywordStaysIdle ==
  (Running /\ NoKeywordAnywhere) =>
    /\ current_section = None
    /\ buffer = <<>>
    /\ DOMAIN readings_found = {}
    /\ readings = <<>>

\* the run is over a page of plain and citation lines
C11_Witness ==
  /\ pc = "done"
  /\ NoKeywordAnywhere
  /\ \E a, b \in 1..Len(lines) : Line(a) # "" /\ DigitAt(b) /\ ~DigitAt(a)
  /\ readings = <<>>

(* ---------------- C12 ---------------- *)

\* the locals of get_liturgical_readings and its result
scrape == <<lines, i, buffer, current_section, current_ref, readings_found,
            readings>>

C12_Refused ==
  (pc = "responded" /\ Falsy(date)) =>
    response = Reply(400, [error |-> "Date parameter is required"])

\* while a request without a date is served no call is under way
C12_NotInvoked == Falsy(date) => pc \in {"idle", "route", "responded"}

C12_Step ==
  (Falsy(date) /\ pc = "route") => (pc' = "responded" /\ UNCHANGED scrape)

\* C12: a request whose date parameter is missing or empty is answered with
\* status 400, and get_liturgical_readings is not invoked for it: nothing is
\* fetched and no line is segmented before the error response.
C12_MissingDate == [](C12_Refused /\ C12_NotInvoked) /\ [][C12_Step]_vars

\* an empty date refused after an earlier request was served with readings
C12_Witness ==
  /\ pc = "responded"
  /\ date = ""
  /\ response = Reply(400, [error |-> "Date parameter is required"])
  /\ readings # <<>>

(* ---------------- C13 ---------------- *)

C13_Answered ==
  (pc = "responded" /\ ~Falsy(date)) =>
    /\ response = Reply(200, readings)
    /\ DOMAIN readings_found = {} => response = Reply(200, <<>>)

\* a failed scrape goes from the call to the handler and from there to the
\* return of [], with no step of the loop
C13_FailStep ==
  /\ pc' = "except" => (pc = "call" /\ UNCHANGED scrape)
  /\ pc = "except" =>
       /\ pc' = "done"
       /\ readings' = <<>>
       /\ UNCHANGED <<lines, i, buffer, current_section, current_ref,
                      readings_found>>

\* C13: a request with a date whose scrape fails (network error, status not
\* 2xx, exception in the parsing) or finds no section ends in a response
\* with status 200 and an empty list, never in an error response, and after
\* a failed fetch the loop over the lines is not entered.
C13_EmptyOnFailure ==
  /\ []C13_Answered
  /\ [][C13_FailStep]_vars
  /\ (pc = "except") ~> (pc = "responded" /\ response = Reply(200, <<>>))
  /\ (pc = "order" /\ DOMAIN readings_found = {})
       ~> (pc = "responded" /\ response = Reply(200, <<>>))

\* the empty list is the answer although the locals of an earlier call,
\* left untouched by the failed one, hold a reading
C13_Witness ==
  /\ pc = "responded"
  /\ ~Falsy(date)
  /\ response = Reply(200, <<>>)
  /\ DOMAIN readings_found # {}

(* ---------------- C14 ---------------- *)

\* C14: a line is classified as the type of the first keyword of the table
\* whose phrase it contains, letter case aside and wherever the phrases
\* stand in the line, and as none when it contains no phrase; the section
\* the loop opens at a header line is of that type.
C14_FirstKeywordInTable ==
  Running =>
    /\ \A k \in 1..Len(lines) : TypeAt(k) = FirstInTable(Line(k))
    /\ (pc = "loop" /\ i > 1 /\ Line(i - 1) # ""
          /\ PhrasesIn[Line(i - 1)] # {}) =>
         current_section = FirstInTable(Line(i - 1))

\* a line whose first phrase in the text is the last keyword of the table
C14_Witness ==
  /\ pc = "loop"
  /\ i > 1
  /\ PhrasesIn[Line(i - 1)] = {3, 4}
  /\ PhraseAt(keywords[4][1], Line(i - 1), 1)
  /\ current_section = "second_reading"

(* ---------------- C15 ---------------- *)

\* the non-empty lines from..to, the line at position skip left out
RECURSIVE LinesExcept(_, _, _)
LinesExcept(from, to, skip) ==
  IF from > to THEN <<>>
  ELSE (IF Line(from) # "" /\ from # skip THEN <<Line(from)>> ELSE <<>>)
       \o LinesExcept(from + 1, to, skip)

\* the lines between header h and the close of its section, without the one
\* line after the header that was taken as the reference
SectionLines(h) ==
  LinesExcept(h + 1, NextHeaderAfter(h) - 1,
              IF h < Len(lines) /\ DigitAt(h + 1) THEN h + 1 ELSE 0)

\* C15: the text of a reading, when it is recorded, is the lines of its
\* section in page order joined by one space, the reference line (the one
\* line right after the header, when taken as the reference) left out and
\* every other line of the section kept.
C15_TextIsSectionBody ==
  [][\A T \in Types :
       Records(T) =>
         readings_found'[T].text = Join(SectionLines(OpenIdx))]_vars

(* ---------------- C16 ---------------- *)

\* the loop is at a non-empty line that is no header, with no section open
IdleBodyLine ==
  /\ pc = "loop"
  /\ i <= Len(lines)
  /\ Line(i) # ""
  /\ TypeAt(i) = None
  /\ current_section = None

C16_Frame ==
  IdleBodyLine =>
    UNCHANGED <<current_section, current_ref, buffer, readings_found>>

\* the title a section takes when it is recorded: the header line that
\* closes it, or the title-cased type name at the end of the page
TitleOf(h) ==
  IF NextHeaderAfter(h) <= Len(lines) THEN Line(NextHeaderAfter(h))
  ELSE TitleCasedName(TypeAt(h))

\* every field of a returned reading is taken from a header line and the
\* lines after it, so from no line that precedes the first header
C16_FromSections ==
  pc = "done" =>
    \A a \in 1..Len(readings) :
      \E h \in HeadersOf(readings[a].type) :
        /\ readings[a].text = FullText(BodyOf(h))
        /\ readings[a].reference = RefLineOf(h)
        /\ readings[a].title = TitleOf(h)

\* C16: a non-header line processed while no section is open is discarded:
\* the step leaves current_section, current_ref, buffer and readings_found
\* as they are, and the text, title and reference of every returned reading
\* come from lines at and after a header, never from such a line.
C16_IdleLineDiscarded == []C16_FromSections /\ [][C16_Frame]_vars

\* a page that starts with two plain lines and yields a reading
C16_Witness ==
  /\ pc = "done"
  /\ Len(lines) >= 3
  /\ \A k \in 1..2 : Line(k) # "" /\ TypeAt(k) = None
  /\ Len(readings) >= 1

(* ---------------- C17 ---------------- *)

\* a step keeps every entry readings_found holds
C17_Kept ==
  \A T \in DOMAIN readings_found :
    /\ T \in DOMAIN readings_found'
    /\ readings_found'[T] = readings_found[T]

\* the returned list holds the entries of readings_found, one per key
C17_Emitted ==
  pc = "done" =>
    /\ {readings[a].type : a \in 1..Len(readings)} = DOMAIN readings_found
    /\ \A a \in 1..Len(readings) :
         readings[a] = readings_found[readings[a].type]

\* C17: once a reading of type T is in readings_found its four fields never
\* change for the rest of the run: readings_found only grows, and the entry
\* returned for T is the one made when T was first recorded.
C17_RecordedOnce == []C17_Emitted /\ [][C17_Kept]_vars

\* a type recorded when its first section closed at a header; a later
\* section of the type, with another text, was open at the end of the page
C17_Witness ==
  /\ pc = "done"
  /\ \E T \in Types :
       /\ Cardinality(HeadersOf(T)) >= 2
       /\ BodyOf(FirstHeaderOf(T)) # <<>>
       /\ NextHeaderAfter(SecondHeaderOf(T)) = Len(lines) + 1
       /\ BodyOf(SecondHeaderOf(T)) \notin {<<>>, BodyOf(FirstHeaderOf(T))}
       /\ \E a \in 1..Len(readings) :
            /\ readings[a].type = T
            /\ readings[a].title = Line(NextHeaderAfter(FirstHeaderOf(T)))
            /\ readings[a].text = FullText(BodyOf(FirstHeaderOf(T)))

(* ---------------- C18 ---------------- *)

\* the sections of type T that close with body lines in the buffer
Recordable(T) == {h \in HeadersOf(T) : BodyOf(h) # <<>>}

Earliest(T) == CHOOSE h \in Recordable(T) : \A m \in Recordable(T) : h <= m

\* C18: a type is in the output if and only if some section of the type
\* closed, at a later header or at the end of the page, with a non-empty
\* buffer, and its reading is the one built at the earliest such close; a
\* section that closes with an empty buffer records nothing and does not
\* keep a later section of the type from being recorded.
C18_RecordedIffNonEmptyClose ==
  pc = "done" =>
    \A T \in Types :
      /\ (\E a \in 1..Len(readings) : readings[a].type = T)
           <=> Recordable(T) # {}
      /\ Recordable(T) # {} =>
           \E a \in 1..Len(readings) :
             readings[a] = Reading(T, TitleOf(Earliest(T)),
                                   RefLineOf(Earliest(T)),
                                   FullText(BodyOf(Earliest(T))))

\* the first section of a type holds its reference line only and closes
\* empty, a later section of the type is the one recorded
C18_Witness ==
  /\ pc = "done"
  /\ \E T \in Types :
       /\ Cardinality(HeadersOf(T)) >= 2
       /\ NextHeaderAfter(FirstHeaderOf(T)) > FirstHeaderOf(T) + 1
       /\ DigitAt(FirstHeaderOf(T) + 1)
       /\ BodyOf(FirstHeaderOf(T)) = <<>>
       /\ Recordable(T) # {}
       /\ \E a \in 1..Len(readings) : readings[a].type = T

(* ---------------- C19 ---------------- *)

\* C19: in every state each entry of readings_found, and each returned
\* reading, has a non-empty text, a type equal to its key, and a reference
\* that is empty or is a line of the page that has a digit and is not
\* classified as a header.
C19_EntriesWellFormed ==
  /\ \A T \in DOMAIN readings_found :
       /\ readings_found[T].text # ""
       /\ readings_found[T].type = T
       /\ \/ readings_found[T].reference = ""
          \/ \E k \in 1..Len(lines) :
               /\ Line(k) = readings_found[T].reference
               /\ DigitAt(k)
               /\ PhrasesIn[Line(k)] = {}
  /\ \A a \in 1..Len(readings) :
       /\ readings[a].text # ""
       /\ readings[a].type \in Types

\* a header line with a digit stood right after a header and was taken as
\* a reference, and a reading with a reference is recorded
C19_Witness ==
  /\ pc = "done"
  /\ \E h \in 1..(Len(lines) - 1) :
       IsHeaderAt(h) /\ IsHeaderAt(h + 1) /\ DigitAt(h + 1)
  /\ \E T \in DOMAIN readings_found : readings_found[T].reference # ""

(* ---------------- C20 ---------------- *)

\* no line held in the buffer contains a keyword phrase
C20_BufferHasNoHeader ==
  \A k \in 1..Len(buffer) : PhrasesIn[buffer[k]] = {}

\* a step at a line that contains a keyword phrase closes the open section
\* and opens a new one; a text, when recorded, is the joined buffer
C20_Step ==
  /\ \A T \in Types :
       Records(T) =>
         T = current_section /\ readings_found'[T].text = FullText(buffer)
  /\ (pc = "loop" /\ i <= Len(lines) /\ PhrasesIn[Line(i)] # {}) =>
       /\ (current_section # None /\ buffer # <<>>) =>
            current_section \in DOMAIN readings_found'
       /\ current_section' = FirstInTable(Line(i))
       /\ buffer' = <<>>
       /\ current_ref' = RefLineOf(i)
       /\ i' = i + 1

\* C20: a line that contains a keyword phrase, even inside longer prose, is
\* never appended to a buffer, so no recorded text holds such a line; every
\* such line closes the open section and opens a new one with an empty
\* buffer and a reference computed from the line that follows it.
C20_HeaderNeverBody == []C20_BufferHasNoHeader /\ [][C20_Step]_vars

\* a sentence that mentions a keyword has closed a section with body text
\* and opened one with a reference
C20_Witness ==
  /\ pc = "loop"
  /\ i > 1
  /\ Line(i - 1) = "EVANGELIO del dia"
  /\ buffer = <<>>
  /\ current_section = "gospel"
  /\ current_ref # ""
  /\ \E T \in DOMAIN readings_found : readings_found[T].title = Line(i - 1)

====
